---- MODULE Spec2Model ----
(***************************************************************************)
(* The synchronous facade of include/internal/sync_api.hpp: six overloads  *)
(* of hash::compute (three for host pointers, three for                    *)
(* device_accessible_ptr), the seven macro-generated aliases, and the two  *)
(* launch primitives they call, internal::hash_with_data_copy and          *)
(* internal::dispatch_hash, followed by a wait on the returned event.      *)
(*                                                                         *)
(* A call is modelled from the call expression on: overload resolution     *)
(* (template argument list, enable_if constraint, parameter list), the     *)
(* evaluation of the one statement of the selected body (primitive call,   *)
(* wait, destruction of the temporary at the end of the full expression),  *)
(* and the return or the propagation of an exception.  The device runs     *)
(* the submitted work asynchronously.                                      *)
(***************************************************************************)
EXTENDS Integers, Sequences, FiniteSets, TLC

\* Bounds of the model.
NThreads == 2
MaxCalls == 2

Threads == 1..NThreads

VARIABLES
    scenario,   \* which calls the callers issue: "matrix" or "concurrent"
    pc,         \* pc[t]: where thread t is in its current call
    call,       \* call[t]: the call expression thread t is evaluating
    sel,        \* sel[t]: the overloads viable for call[t]
    ret,        \* ret[t]: the event returned by this call's primitive (0: none)
    invs,       \* invs[t]: the primitive invocations made by this call
    waits,      \* waits[t]: the events this call has called wait() on
    raised,     \* raised[t]: the failures the collaborators raised in this call
    result,     \* result[t]: "none", "ok" or the failure delivered to the caller
    tmp,        \* tmp[t]: the object returned by the primitive is alive
    events,     \* the work submitted to the queue, in submission order
    ncalls      \* calls issued so far

vars == <<scenario, pc, call, sel, ret, invs, waits, raised, result, tmp, events, ncalls>>

----------------------------------------------------------------------------
(* Values the callers pass. *)

FixedDigest == {"md2", "md5", "sha1", "sha256"}
method == FixedDigest \cup {"sha3", "keccak", "blake2b"}

Widths == {7, 256}
KeyLens == {16, 65}
InLens == {5, 64}
Batches == {1, 4}

nullptr == <<"host", "null", 0>>
NoCall == [name |-> "none", targs |-> <<>>, args |-> <<>>]

Ptr(r, what, t) == <<r, what, t>>

\* The argument lists (q, in, inlen, out, n_batch [, key, keylen]) of thread t.
ArgLists(t, lens, batches, keylens) ==
    LET five == {<<"q", Ptr(r, "in", t), l, Ptr(r, "out", t), n>> :
                    r \in {"host", "dev"}, l \in lens, n \in batches}
    IN  five \cup {a \o <<Ptr("host", "key", t), k>> : a \in five, k \in keylens}

----------------------------------------------------------------------------
(* Overload resolution. Overloads are numbered in source order. *)

Overloads == 1..6

\* Fault variant: the fixed-digest constraint without M != blake2b.
EnableIfLoose(o, M) ==
    CASE o \in {1, 4} -> M # "keccak" /\ M # "sha3"
      [] o \in {2, 5} -> M = "keccak" \/ M = "sha3"
      [] o \in {3, 6} -> M = "blake2b"

\* The std::enable_if_t constraint of overload o on the method M.
EnableIf(o, M) ==
    CASE o \in {1, 4} -> M # "keccak" /\ M # "sha3" /\ M # "blake2b"
      [] o \in {2, 5} -> M = "keccak" \/ M = "sha3"
      [] o \in {3, 6} -> M = "blake2b"

\* Explicit template arguments overload o needs: <method M> or <method M, int n_outbit>
\* (n_outbit cannot be deduced, and an int cannot bind to the defaulted typename).
TemplateArity(o) == IF o \in {1, 4} THEN 1 ELSE 2

\* The pointer type of overload o's in and out parameters.
Residency(o) == IF o \in {1, 2, 3} THEN "host" ELSE "dev"

\* Number of function parameters of overload o.
NParams(o) == IF o \in {3, 6} THEN 7 ELSE 5

\* Fault variant: viability that also checks the width and the key length.
ViableValidating(o, targs, args) ==
    /\ Len(targs) = TemplateArity(o)
    /\ targs[1] \in method
    /\ EnableIf(o, targs[1])
    /\ Len(args) = NParams(o)
    /\ args[2][1] = Residency(o)
    /\ args[4][1] = Residency(o)
    /\ Len(targs) = 2 => targs[2] % 8 = 0
    /\ Len(args) = 7 => args[7] <= 64

\* Overload o is viable for compute<targs>(args).
Viable(o, targs, args) ==
    /\ Len(targs) = TemplateArity(o)
    /\ targs[1] \in method
    /\ EnableIf(o, targs[1])
    /\ Len(args) = NParams(o)
    /\ args[2][1] = Residency(o)
    /\ args[4][1] = Residency(o)

compute(targs, args) == {o \in Overloads : Viable(o, targs, args)}

----------------------------------------------------------------------------
(* The aliases generated by alias_sync_compute and                          *)
(* alias_sync_compute_with_n_outbit.                                        *)

AliasNames == {"compute_md2", "compute_md5", "compute_sha1", "compute_sha256",
               "compute_sha3", "compute_blake2b", "compute_keccak"}

\* Fault variant: compute_sha3 generated with method::keccak.
AliasMethodSlip(a) ==
    CASE a = "compute_md2" -> "md2"
      [] a = "compute_md5" -> "md5"
      [] a = "compute_sha1" -> "sha1"
      [] a = "compute_sha256" -> "sha256"
      [] a = "compute_sha3" -> "keccak"
      [] a = "compute_blake2b" -> "blake2b"
      [] a = "compute_keccak" -> "keccak"

\* The method each alias was generated with.
AliasMethod(a) ==
    CASE a = "compute_md2" -> "md2"
      [] a = "compute_md5" -> "md5"
      [] a = "compute_sha1" -> "sha1"
      [] a = "compute_sha256" -> "sha256"
      [] a = "compute_sha3" -> "sha3"
      [] a = "compute_blake2b" -> "blake2b"
      [] a = "compute_keccak" -> "keccak"

\* Which macro generated the alias.
AliasMacro(a) ==
    IF a \in {"compute_sha3", "compute_blake2b", "compute_keccak"}
    THEN "alias_sync_compute_with_n_outbit"
    ELSE "alias_sync_compute"

\* The alias template takes <typename... Args> or <int n_outbit, typename... Args>:
\* the explicit template arguments of an alias call are <> or <n_outbit>.
AliasTemplateOk(a, targs) ==
    IF AliasMacro(a) = "alias_sync_compute" THEN Len(targs) = 0 ELSE Len(targs) = 1

\* The template arguments of the compute call in the alias's trailing return
\* type and body.
AliasInner(a, targs) ==
    IF AliasMacro(a) = "alias_sync_compute"
    THEN <<AliasMethod(a)>>
    ELSE <<AliasMethod(a), targs[1]>>

\* The template arguments compute is instantiated with by call c.
ComputeTArgs(c) ==
    IF c.name = "compute" THEN c.targs ELSE AliasInner(c.name, c.targs)

\* The overloads selectable for call c. An alias is selectable when its own
\* template arguments fit and the decltype of the inner compute call is well formed.
Resolve(c) ==
    IF c.name = "compute" THEN compute(c.targs, c.args)
    ELSE IF AliasTemplateOk(c.name, c.targs)
         THEN compute(AliasInner(c.name, c.targs), c.args)
         ELSE {}

----------------------------------------------------------------------------
(* The body of overload o. *)

\* Fault variant: the host sha3/keccak overload calling dispatch_hash.
PrimitiveSlip(o) == IF o \in {1, 3} THEN "hash_with_data_copy" ELSE "dispatch_hash"

\* The primitive overload o calls.
Primitive(o) == IF o \in {1, 2, 3} THEN "hash_with_data_copy" ELSE "dispatch_hash"

\* The n_outbit the primitive is instantiated with.
Outbit(o, targs) == IF o \in {1, 4} THEN 0 ELSE targs[2]

\* The key and keylen arguments handed on.
KeyArgs(o, args) == IF o \in {3, 6} THEN <<args[6], args[7]>> ELSE <<nullptr, 0>>

\* The dependency event of a device-resident launch is sycl::event{}, written 0.
\* Fault variant: the latest event submitted to the queue as dependency.
DepArgStale(t) == Len(events)

\* The dependency event passed to dispatch_hash.
DepArg(t) == 0

\* Fault variant: the packet built as {q, in, out, inlen, n_batch}.
PrimArgsSlip(o, args, t) ==
    IF Primitive(o) = "hash_with_data_copy"
    THEN <<args[1], args[2], args[4], args[3], args[5]>> \o KeyArgs(o, args)
    ELSE <<args[1], DepArg(t), args[2], args[4], args[3], args[5]>> \o KeyArgs(o, args)

\* The positional arguments of the primitive call, from the parameters
\* (q, in, inlen, out, n_batch [, key, keylen]).
PrimArgs(o, args, t) ==
    IF Primitive(o) = "hash_with_data_copy"
    THEN <<args[1], args[2], args[4], args[5], args[3]>> \o KeyArgs(o, args)
    ELSE <<args[1], DepArg(t), args[2], args[4], args[3], args[5]>> \o KeyArgs(o, args)

\* What the statement does with the primitive's result h: it calls wait() on it
\* ("waiting"); "end" would be the end of the full expression.
\* Fault variant: the result is dropped without a wait.
AfterLaunchNoWait(o) == "end"

AfterLaunch(o) == "waiting"

\* The event the call waits on: dev_e_ of the returned object, or the returned
\* event itself, h.
\* Fault variant: the wait is on the first event ever submitted.
WaitTargetStale(t, h) == IF Len(events) > 0 THEN 1 ELSE h

WaitTarget(t, h) == h

\* The handler around the statement: the bodies have no try block.
\* Fault variant: a catch (...) {} around the statement.
CatchClauseSwallow(o) == "swallow"

CatchClause(o) == "none"

\* The lifetime of the object the primitive returned: a temporary, destroyed at
\* the end of the full expression.
\* Fault variant: the returned object is never destroyed.
TemporaryLeaked(o) == "leaked"

Temporary(o) == "full_expression"

----------------------------------------------------------------------------
(* The launch primitives and the device, as the facade sees them.           *)

\* The parameter each positional argument of the primitive binds to.
Signature(prim) ==
    IF prim = "hash_with_data_copy"
    THEN <<"queue", "in", "out", "n_batch", "block_len", "key", "keylen">>
    ELSE <<"queue", "dep", "in", "out", "block_len", "n_batch", "key", "keylen">>

Arg(prim, pargs, role) ==
    LET sig == Signature(prim)
    IN  IF \E i \in 1..Len(sig) : sig[i] = role
        THEN pargs[CHOOSE i \in 1..Len(sig) : sig[i] = role]
        ELSE 0

\* What the primitive receives, by parameter.
Received(prim, M, outbit, pargs) ==
    [prim |-> prim, M |-> M, n_outbit |-> outbit,
     queue |-> Arg(prim, pargs, "queue"), dep |-> Arg(prim, pargs, "dep"),
     in |-> Arg(prim, pargs, "in"), out |-> Arg(prim, pargs, "out"),
     block_len |-> Arg(prim, pargs, "block_len"), n_batch |-> Arg(prim, pargs, "n_batch"),
     key |-> Arg(prim, pargs, "key"), keylen |-> Arg(prim, pargs, "keylen")]

\* The invocation overload o makes for call c of thread t.
Invocation(o, c, t) ==
    Received(Primitive(o), ComputeTArgs(c)[1], Outbit(o, ComputeTArgs(c)),
             PrimArgs(o, c.args, t))

Settled(d) == IF d = 0 THEN TRUE ELSE events[d].phase \in {"done", "failed"}

NextPhase(ev) ==
    CASE ev.phase = "copyin" -> "kernel"
      [] ev.phase = "kernel" -> IF ev.prim = "hash_with_data_copy" THEN "copyout" ELSE "done"
      [] ev.phase = "copyout" -> "done"

\* The work submitted by one invocation. The copy-orchestrating primitive
\* allocates staging buffers, which either the returned object owns or the
\* primitive releases itself when the work settles.
NewEvent(t, inv, owned) ==
    [owner |-> t, prim |-> inv.prim, dep |-> inv.dep,
     phase |-> IF inv.prim = "hash_with_data_copy" THEN "copyin" ELSE "kernel",
     staging |-> IF inv.prim = "hash_with_data_copy" THEN "held" ELSE "none",
     owned |-> owned, out |-> FALSE]

\* The events after the object returned to thread t is destroyed.
Destroyed(t) ==
    IF ret[t] # 0 /\ events[ret[t]].owned /\ events[ret[t]].staging = "held"
    THEN [events EXCEPT ![ret[t]].staging = "released"]
    ELSE events

----------------------------------------------------------------------------
(* The calls a thread may issue. *)

MatrixCalls(t) ==
    LET args == ArgLists(t, InLens, Batches, KeyLens)
    IN  {[name |-> "compute", targs |-> ta, args |-> a] :
            ta \in {<<M>> : M \in method} \cup (method \X Widths), a \in args}
        \cup
        {[name |-> n, targs |-> ta, args |-> a] :
            n \in AliasNames, ta \in {<<>>} \cup {<<w>> : w \in Widths}, a \in args}

ConcurrentCalls(t) ==
    {c \in {[name |-> "compute", targs |-> ta, args |-> a] :
                ta \in {<<"md5">>, <<"sha3", 256>>, <<"blake2b", 256>>},
                a \in ArgLists(t, {5}, {4}, {16})} :
        Resolve(c) # {} /\ (c.args[2][1] = "host" => c.targs[1] = "md5")}

Calls(t) ==
    IF scenario = "matrix"
    THEN IF t = 1 THEN MatrixCalls(t) ELSE {}
    ELSE ConcurrentCalls(t)

----------------------------------------------------------------------------
(* Initial state and actions. *)

InitCommon ==
    /\ pc = [t \in Threads |-> "idle"]
    /\ call = [t \in Threads |-> NoCall]
    /\ sel = [t \in Threads |-> {}]
    /\ ret = [t \in Threads |-> 0]
    /\ invs = [t \in Threads |-> <<>>]
    /\ waits = [t \in Threads |-> <<>>]
    /\ raised = [t \in Threads |-> <<>>]
    /\ result = [t \in Threads |-> "none"]
    /\ tmp = [t \in Threads |-> FALSE]
    /\ events = <<>>
    /\ ncalls = 0

Init == InitCommon /\ scenario = "matrix"

InitConcurrent == InitCommon /\ scenario = "concurrent"

\* Thread t writes a call; the compiler selects the overload or rejects the call.
Call(t) ==
    /\ pc[t] = "idle"
    /\ ncalls < MaxCalls
    /\ \E c \in Calls(t) :
        /\ call' = [call EXCEPT ![t] = c]
        /\ sel' = [sel EXCEPT ![t] = Resolve(c)]
        /\ pc' = [pc EXCEPT ![t] = IF Cardinality(Resolve(c)) = 1 THEN "body" ELSE "rejected"]
    /\ ncalls' = ncalls + 1
    /\ UNCHANGED <<scenario, ret, invs, waits, raised, result, tmp, events>>

Selected(t) == CHOOSE o \in sel[t] : TRUE

\* The body calls its primitive, which launches and returns its event h, and
\* calls wait().
Launch(t) ==
    /\ pc[t] = "body"
    /\ LET o == Selected(t)
           inv == Invocation(o, call[t], t)
           h == Len(events) + 1
       IN  /\ invs' = [invs EXCEPT ![t] = Append(@, inv)]
           /\ \E owned \in (IF inv.prim = "hash_with_data_copy" THEN BOOLEAN ELSE {FALSE}) :
                events' = Append(events, NewEvent(t, inv, owned))
           /\ ret' = [ret EXCEPT ![t] = h]
           /\ tmp' = [tmp EXCEPT ![t] = TRUE]
           /\ pc' = [pc EXCEPT ![t] = AfterLaunch(o)]
           /\ waits' = [waits EXCEPT ![t] =
                            IF AfterLaunch(o) = "waiting" THEN Append(@, WaitTarget(t, h)) ELSE @]
    /\ UNCHANGED <<scenario, call, sel, raised, result, ncalls>>

\* The body calls its primitive, which cannot launch and throws.
LaunchThrows(t) ==
    /\ pc[t] = "body"
    /\ LET o == Selected(t)
       IN  /\ invs' = [invs EXCEPT ![t] = Append(@, Invocation(o, call[t], t))]
           /\ raised' = [raised EXCEPT ![t] = Append(@, "launch_failure")]
           /\ IF CatchClause(o) = "none"
              THEN /\ pc' = [pc EXCEPT ![t] = "threw"]
                   /\ result' = [result EXCEPT ![t] = "launch_failure"]
              ELSE /\ pc' = [pc EXCEPT ![t] = "returned"]
                   /\ result' = [result EXCEPT ![t] = "ok"]
    /\ UNCHANGED <<scenario, call, sel, ret, waits, tmp, events, ncalls>>

Awaited(t) == waits[t][Len(waits[t])]

\* wait() returns: the awaited event has completed.
WaitReturn(t) ==
    /\ pc[t] = "waiting"
    /\ events[Awaited(t)].phase = "done"
    /\ pc' = [pc EXCEPT ![t] = "end"]
    /\ UNCHANGED <<scenario, call, sel, ret, invs, waits, raised, result, tmp, events, ncalls>>

\* wait() throws: the awaited event has failed. Unwinding destroys the temporary.
WaitThrows(t) ==
    /\ pc[t] = "waiting"
    /\ events[Awaited(t)].phase = "failed"
    /\ raised' = [raised EXCEPT ![t] = Append(@, "device_failure")]
    /\ IF Temporary(Selected(t)) = "full_expression"
       THEN events' = Destroyed(t) /\ tmp' = [tmp EXCEPT ![t] = FALSE]
       ELSE UNCHANGED <<events, tmp>>
    /\ IF CatchClause(Selected(t)) = "none"
       THEN /\ pc' = [pc EXCEPT ![t] = "threw"]
            /\ result' = [result EXCEPT ![t] = "device_failure"]
       ELSE /\ pc' = [pc EXCEPT ![t] = "returned"]
            /\ result' = [result EXCEPT ![t] = "ok"]
    /\ UNCHANGED <<scenario, call, sel, ret, invs, waits, ncalls>>

\* The full expression ends, which destroys the temporary returned by the
\* primitive, and the call returns to its caller.
Return(t) ==
    /\ pc[t] = "end"
    /\ IF Temporary(Selected(t)) = "full_expression"
       THEN events' = Destroyed(t) /\ tmp' = [tmp EXCEPT ![t] = FALSE]
       ELSE UNCHANGED <<events, tmp>>
    /\ pc' = [pc EXCEPT ![t] = "returned"]
    /\ result' = [result EXCEPT ![t] = "ok"]
    /\ UNCHANGED <<scenario, call, sel, ret, invs, waits, raised, ncalls>>

\* The caller goes on to its next call.
Finish(t) ==
    /\ pc[t] \in {"returned", "threw", "rejected"}
    /\ pc' = [pc EXCEPT ![t] = "idle"]
    /\ call' = [call EXCEPT ![t] = NoCall]
    /\ sel' = [sel EXCEPT ![t] = {}]
    /\ ret' = [ret EXCEPT ![t] = 0]
    /\ invs' = [invs EXCEPT ![t] = <<>>]
    /\ waits' = [waits EXCEPT ![t] = <<>>]
    /\ raised' = [raised EXCEPT ![t] = <<>>]
    /\ result' = [result EXCEPT ![t] = "none"]
    /\ tmp' = [tmp EXCEPT ![t] = FALSE]
    /\ UNCHANGED <<scenario, events, ncalls>>

\* The device finishes the current phase of submitted work e.
DeviceStep(e) ==
    /\ events[e].phase \notin {"done", "failed"}
    /\ Settled(events[e].dep)
    /\ LET ev == events[e]
           np == NextPhase(ev)
       IN  events' = [events EXCEPT ![e] =
               [ev EXCEPT !.phase = np,
                          !.out = (np = "done"),
                          !.staging = IF np = "done" /\ ~ev.owned /\ @ = "held"
                                      THEN "released" ELSE @]]
    /\ UNCHANGED <<scenario, pc, call, sel, ret, invs, waits, raised, result, tmp, ncalls>>

\* The device fails while running the kernel of submitted work e.
DeviceFail(e) ==
    /\ events[e].phase = "kernel"
    /\ Settled(events[e].dep)
    /\ events' = [events EXCEPT ![e] =
            [@ EXCEPT !.phase = "failed",
                      !.staging = IF ~events[e].owned /\ @ = "held" THEN "released" ELSE @]]
    /\ UNCHANGED <<scenario, pc, call, sel, ret, invs, waits, raised, result, tmp, ncalls>>

Next ==
    \/ \E t \in Threads : Call(t)
    \/ \E t \in Threads : Launch(t)
    \/ \E t \in Threads : LaunchThrows(t)
    \/ \E t \in Threads : WaitReturn(t)
    \/ \E t \in Threads : WaitThrows(t)
    \/ \E t \in Threads : Return(t)
    \/ \E t \in Threads : Finish(t)
    \/ \E e \in 1..Len(events) : DeviceStep(e)
    \/ \E e \in 1..Len(events) : DeviceFail(e)

Spec == Init /\ [][Next]_vars

SpecConcurrent == InitConcurrent /\ [][Next]_vars

----------------------------------------------------------------------------
(* Properties. *)

IsHost(c) == c.args[2][1] = "host"
WithKey(c) == Len(c.args) = 7

\* The legal call shapes: fixed-digest tags without width and key, sha3 and
\* keccak with width and without key, blake2b with width and key.
LegalShape(M, withWidth, withKey) ==
    \/ M \in FixedDigest /\ ~withWidth /\ ~withKey
    \/ M \in {"sha3", "keccak"} /\ withWidth /\ ~withKey
    \/ M = "blake2b" /\ withWidth /\ withKey

\* The tag an alias is named after.
TagNamed(a) ==
    CASE a = "compute_md2" -> "md2"
      [] a = "compute_md5" -> "md5"
      [] a = "compute_sha1" -> "sha1"
      [] a = "compute_sha256" -> "sha256"
      [] a = "compute_sha3" -> "sha3"
      [] a = "compute_keccak" -> "keccak"
      [] a = "compute_blake2b" -> "blake2b"

\* The direct call compute<tag[, w]>(args) an alias call stands for.
DirectCall(c) ==
    IF c.name = "compute" THEN c
    ELSE [name |-> "compute", targs |-> <<TagNamed(c.name)>> \o c.targs, args |-> c.args]

StaticallyLegal(c) ==
    LET d == DirectCall(c)
    IN  LegalShape(d.targs[1], Len(d.targs) = 2, WithKey(d))

\* C1: a compute call that has come back from its wait, or has returned, finds
\* the event produced by its own dispatch completed; in the host-resident form
\* the output has by then been transferred to the caller's output buffer.
C1_ReturnsAfterCompletion ==
    \A t \in Threads :
        pc[t] \in {"end", "returned"} =>
            /\ ret[t] # 0
            /\ events[ret[t]].phase = "done"
            /\ IsHost(call[t]) => events[ret[t]].out

\* C1 witness: a host-resident blake2b call has returned, its output transferred.
C1_Witness ==
    \E t \in Threads :
        /\ pc[t] = "returned"
        /\ IsHost(call[t])
        /\ invs[t][1].M = "blake2b"
        /\ events[ret[t]].out

\* C2 as stated: every compute call makes exactly one dispatch and issues
\* exactly one wait, on its own handle.
C2_ExactlyOneWaitInEveryCall ==
    \A t \in Threads :
        pc[t] \in {"returned", "threw"} =>
            /\ Len(invs[t]) = 1
            /\ Len(waits[t]) = 1
            /\ waits[t][1] = ret[t]

\* C2 amended: a call makes exactly one dispatch; when the dispatch returned a
\* handle the call issues exactly one wait, on that handle, which no other call
\* holds; when the dispatch threw, the call issues no wait.
C2_OneDispatchOneWaitOnOwnHandle ==
    \A t \in Threads :
        /\ Len(invs[t]) <= 1
        /\ pc[t] \in {"waiting", "end", "returned", "threw"} => Len(invs[t]) = 1
        /\ ret[t] # 0 =>
            /\ waits[t] = <<ret[t]>>
            /\ events[ret[t]].owner = t
            /\ \A u \in Threads \ {t} : ret[u] # ret[t]
        /\ ret[t] = 0 => waits[t] = <<>>

\* C2 witness: a call has returned having waited on its own handle while another call holds an earlier one.
C2_Witness ==
    \E t \in Threads :
        /\ pc[t] = "returned"
        /\ Len(events) > 1
        /\ waits[t] = <<ret[t]>>
        /\ \E u \in Threads \ {t} : ret[u] # 0 /\ ret[u] < ret[t]

\* C3: over tags x residency x width given or not x key given or not, a direct
\* compute call selects exactly one overload, of the caller's residency, when
\* its shape is legal, and no overload otherwise.
C3_ExactlyOneLegalShape ==
    \A t \in Threads :
        (pc[t] # "idle" /\ call[t].name = "compute") =>
            LET c == call[t]
            IN  IF LegalShape(c.targs[1], Len(c.targs) = 2, WithKey(c))
                THEN /\ Cardinality(sel[t]) = 1
                     /\ \A o \in sel[t] : Residency(o) = c.args[2][1]
                     /\ pc[t] # "rejected"
                ELSE sel[t] = {} /\ pc[t] = "rejected"

\* C3 witness: a fixed-digest tag with an output width was rejected.
C3_Witness ==
    \E t \in Threads :
        /\ pc[t] = "rejected"
        /\ call[t].name = "compute"
        /\ call[t].targs[1] \in FixedDigest
        /\ Len(call[t].targs) = 2

\* C4: a call with host pointers invokes only hash_with_data_copy, a call with
\* device pointers only dispatch_hash, and a device-resident call has no staging.
C4_ResidencyRouting ==
    \A t \in Threads :
        /\ \A i \in 1..Len(invs[t]) :
            invs[t][i].prim = IF IsHost(call[t]) THEN "hash_with_data_copy" ELSE "dispatch_hash"
        /\ (ret[t] # 0 /\ ~IsHost(call[t])) => events[ret[t]].staging = "none"

\* C4 witness: a device-resident keccak call has returned through dispatch_hash.
C4_Witness ==
    \E t \in Threads :
        /\ pc[t] = "returned"
        /\ ~IsHost(call[t])
        /\ invs[t][1].prim = "dispatch_hash"
        /\ invs[t][1].M = "keccak"

\* C5: the primitive receives the caller's inlen as block length, n_batch as
\* batch count, in and out in their roles, key and keylen unmodified for
\* blake2b, a null key of length 0 otherwise, and width 0 for fixed-digest tags.
C5_ArgumentsPassThrough ==
    \A t \in Threads :
        \A i \in 1..Len(invs[t]) :
            LET v == invs[t][i]
                a == call[t].args
            IN  /\ v.queue = a[1]
                /\ v.in = a[2]
                /\ v.block_len = a[3]
                /\ v.out = a[4]
                /\ v.n_batch = a[5]
                /\ IF v.M = "blake2b"
                   THEN v.key = a[6] /\ v.keylen = a[7]
                   ELSE v.key = nullptr /\ v.keylen = 0
                /\ v.M \in FixedDigest => v.n_outbit = 0

\* C5 witness: a host-resident blake2b call with inlen 64, n_batch 4, keylen 16 is launched.
C5_Witness ==
    \E t \in Threads :
        /\ pc[t] = "waiting"
        /\ IsHost(call[t])
        /\ invs[t][1].M = "blake2b"
        /\ invs[t][1].block_len = 64
        /\ invs[t][1].n_batch = 4
        /\ invs[t][1].keylen = 16

\* The widths and key lengths the algorithms accept.
ValidParams(v) ==
    /\ v.M \in {"sha3", "keccak"} => v.n_outbit \in {224, 256, 384, 512}
    /\ v.M = "blake2b" => /\ v.n_outbit \in 8..512
                          /\ v.n_outbit % 8 = 0
                          /\ v.keylen \in 0..64

\* C6 as stated: no call with an invalid width or key length reaches a primitive.
C6_ValidatedBeforeLaunch ==
    \A t \in Threads : \A i \in 1..Len(invs[t]) : ValidParams(invs[t][i])

\* C6 amended: the facade rejects a call only for its shape, at compile time;
\* every call of a legal shape reaches its primitive with the width and the key
\* length as given, valid or not.
C6_NoValidationByFacade ==
    \A t \in Threads :
        (pc[t] # "idle" /\ StaticallyLegal(call[t])) =>
            /\ pc[t] # "rejected"
            /\ pc[t] # "body" =>
                /\ Len(invs[t]) = 1
                /\ Len(DirectCall(call[t]).targs) = 2 =>
                       invs[t][1].n_outbit = DirectCall(call[t]).targs[2]
                /\ WithKey(call[t]) => invs[t][1].keylen = call[t].args[7]

\* C6 witness: a blake2b call with width 7 and key length 65 has run and returned.
C6_Witness ==
    \E t \in Threads :
        /\ pc[t] = "returned"
        /\ invs[t][1].M = "blake2b"
        /\ invs[t][1].n_outbit = 7
        /\ invs[t][1].keylen = 65

\* C7: a failure raised at launch or by the wait ends the call with that same
\* failure; there is no second invocation, a call whose launch failed issues no
\* wait, and no call returns normally after a failure.
C7_FailurePropagates ==
    \A t \in Threads :
        /\ Len(invs[t]) <= 1
        /\ Len(raised[t]) <= 1
        /\ raised[t] # <<>> => pc[t] = "threw" /\ result[t] = raised[t][1]
        /\ pc[t] = "threw" => raised[t] # <<>>
        /\ raised[t] = <<"launch_failure">> => waits[t] = <<>> /\ ret[t] = 0
        /\ raised[t] = <<"device_failure">> => events[ret[t]].phase = "failed"
        /\ pc[t] = "returned" => result[t] = "ok" /\ raised[t] = <<>>

\* C7 witness: a call whose launch failed has thrown that failure after one invocation.
C7_Witness ==
    \E t \in Threads :
        /\ pc[t] = "threw"
        /\ result[t] = "launch_failure"
        /\ Len(invs[t]) = 1

C10_NoOrderingAcrossCalls ==
    /\ \A t \in Threads : \A i \in 1..Len(invs[t]) : invs[t][i].dep = 0
    /\ \A e \in 1..Len(events) :
        /\ events[e].dep = 0
        /\ events[e].phase \notin {"done", "failed"} => ENABLED DeviceStep(e)
    /\ \A t \in Threads :
        (pc[t] = "waiting" /\ events[ret[t]].phase = "done") => ENABLED WaitReturn(t)

\* C10 witness: a device-resident call has returned while an earlier submitted one is still running.
C10_Witness ==
    \E t, u \in Threads :
        /\ t # u
        /\ pc[t] = "returned"
        /\ pc[u] = "waiting"
        /\ ~IsHost(call[t]) /\ ~IsHost(call[u])
        /\ ret[u] < ret[t]
        /\ events[ret[u]].phase = "kernel"

====
